---- MODULE Spec2Model ----
(***************************************************************************)
(* URL configuration of the GroupBuy Bot Core API                          *)
(* (groupbuy-bot/core/config/urls.py).                                     *)
(*                                                                         *)
(* A request path is the text after the leading '/', modelled as the list  *)
(* of its '/'-separated segments: 'health/' is <<"health", "">>, 'health'  *)
(* is <<"health">>, 'api/users/7' is <<"api", "users", "7">> and the empty *)
(* path is <<"">>.  Splitting at '/' is one-to-one, so equality and the    *)
(* prefix relation of paths are equality and the prefix relation of the    *)
(* texts they stand for.                                                   *)
(***************************************************************************)
EXTENDS Integers, Sequences, FiniteSets, TLC

\* ------------------------------------------------------------------ bounds
MaxSegs == 3
NumWorkers == 2
ConcMaxSegs == 2

\* ------------------------------------------------------------------ inputs
Segments ==
    {"", "admin", "health", "api", "users", "procurements", "chat",
     "payments", "schema", "docs", "nope"}
ConcSegments == {"", "health"}
Methods == {"GET", "POST"}
Bodies == {"", "payload"}
Workers == 1..NumWorkers

PathsOver(segs, n) == UNION {[1..k -> segs] : k \in 1..n}
Paths == PathsOver(Segments, MaxSegs)
ConcPaths == PathsOver(ConcSegments, ConcMaxSegs) \cup {<<"admin", "">>}

\* ------------------------------------------------- views and route entries
\* include('<module>') and admin.site.urls: a list of sub-patterns, mounted.
include(module) == [kind |-> "include", target |-> module, url_name |-> ""]
admin_site_urls == include("admin.site.urls")
\* a plain view function
callable(fn) == [kind |-> "callable", target |-> fn, url_name |-> ""]
\* a class-based view, View.as_view(url_name=...)
as_view(cls, url_name) == [kind |-> "callable", target |-> cls, url_name |-> url_name]

\* every pattern taken for an endpoint, mounted ones too
path_endpoint_only(route, view, name) ==
    [route |-> route, view |-> view, name |-> name, is_endpoint |-> TRUE]

\* django.urls.path(route, view, name): a callable view gives an endpoint
\* pattern (the whole path must match), a list of patterns gives a resolver
\* (the route is a prefix and the rest goes to the sub-patterns).
path(route, view, name) ==
    [route |-> route, view |-> view, name |-> name,
     is_endpoint |-> (view.kind = "callable")]

\* the list with a catch-all mount in front, path('', include('users.urls'))
URLConfCatchAll ==
    << path(<<"">>, include("users.urls"), ""),
       path(<<"admin", "">>, admin_site_urls, ""),
       path(<<"health", "">>, callable("health_check"), "health"),
       path(<<"api", "users", "">>, include("users.urls"), ""),
       path(<<"api", "procurements", "">>, include("procurements.urls"), ""),
       path(<<"api", "chat", "">>, include("chat.urls"), ""),
       path(<<"api", "payments", "">>, include("payments.urls"), ""),
       path(<<"api", "schema", "">>, as_view("SpectacularAPIView", ""), "schema"),
       path(<<"api", "docs", "">>, as_view("SpectacularSwaggerView", "schema"),
            "swagger-ui") >>

\* the list with the viewer given a name no route carries
URLConfWrongName ==
    << path(<<"admin", "">>, admin_site_urls, ""),
       path(<<"health", "">>, callable("health_check"), "health"),
       path(<<"api", "users", "">>, include("users.urls"), ""),
       path(<<"api", "procurements", "">>, include("procurements.urls"), ""),
       path(<<"api", "chat", "">>, include("chat.urls"), ""),
       path(<<"api", "payments", "">>, include("payments.urls"), ""),
       path(<<"api", "schema", "">>, as_view("SpectacularAPIView", ""), "schema"),
       path(<<"api", "docs", "">>, as_view("SpectacularSwaggerView", "api-schema"),
            "swagger-ui") >>

\* the list with the admin site mounted at 'api/', over the domain routers
URLConfOverlap ==
    << path(<<"api", "">>, admin_site_urls, ""),
       path(<<"health", "">>, callable("health_check"), "health"),
       path(<<"api", "users", "">>, include("users.urls"), ""),
       path(<<"api", "procurements", "">>, include("procurements.urls"), ""),
       path(<<"api", "chat", "">>, include("chat.urls"), ""),
       path(<<"api", "payments", "">>, include("payments.urls"), ""),
       path(<<"api", "schema", "">>, as_view("SpectacularAPIView", ""), "schema"),
       path(<<"api", "docs", "">>, as_view("SpectacularSwaggerView", "schema"),
            "swagger-ui") >>

URLConf ==
    << path(<<"admin", "">>, admin_site_urls, ""),
       path(<<"health", "">>, callable("health_check"), "health"),
       path(<<"api", "users", "">>, include("users.urls"), ""),
       path(<<"api", "procurements", "">>, include("procurements.urls"), ""),
       path(<<"api", "chat", "">>, include("chat.urls"), ""),
       path(<<"api", "payments", "">>, include("payments.urls"), ""),
       path(<<"api", "schema", "">>, as_view("SpectacularAPIView", ""), "schema"),
       path(<<"api", "docs", "">>, as_view("SpectacularSwaggerView", "schema"),
            "swagger-ui") >>

\* ---------------------------------------------------------------- matching
\* a prefix test that looks at the first segment only
StartsWithFirstOnly(p, route) ==
    /\ Len(p) >= Len(route)
    /\ p[1] = route[1]

\* the text of p begins with the text of route (route ends with '/')
StartsWith(p, route) ==
    /\ route[Len(route)] = ""
    /\ Len(p) >= Len(route)
    /\ \A i \in 1..(Len(route) - 1) : p[i] = route[i]

\* every route taken for a prefix, endpoints too
RouteMatchesPrefix(pattern, p) == StartsWith(p, pattern.route)

RouteMatches(pattern, p) ==
    IF pattern.is_endpoint THEN p = pattern.route
    ELSE StartsWith(p, pattern.route)

Resolver404 ==
    [route |-> <<>>, view |-> [kind |-> "none", target |-> "Resolver404", url_name |-> ""],
     name |-> "", is_endpoint |-> FALSE]

\* the resolver's loop over the pattern list, from entry i on
RECURSIVE resolve_from(_, _, _)
resolve_from(patterns, i, p) ==
    IF i > Len(patterns) THEN Resolver404
    ELSE IF RouteMatches(patterns[i], p) THEN patterns[i]
    ELSE resolve_from(patterns, i + 1, p)

\* a loop that starts one entry late
resolve_skip_first(patterns, p) == resolve_from(patterns, 2, p)

resolve(patterns, p) == resolve_from(patterns, 1, p)

\* reverse(name): the patterns are searched from the last one back
RECURSIVE reverse_from(_, _, _)
reverse_from(patterns, i, name) ==
    IF i < 1 THEN <<"NoReverseMatch">>
    ELSE IF patterns[i].name = name /\ patterns[i].is_endpoint THEN patterns[i].route
    ELSE reverse_from(patterns, i - 1, name)

reverse(patterns, name) == reverse_from(patterns, Len(patterns), name)

\* ---------------------------------------------------------------- responses
NoResponse == [status |-> 0, by |-> "", body |-> <<>>, schema_url |-> <<>>]

JsonResponse(data) ==
    [status |-> 200, by |-> "health_check", body |-> data, schema_url |-> <<>>]

\* a probe that answers GET only
health_check_get_only(request) ==
    IF request.method = "GET" THEN JsonResponse(<< <<"status", "healthy">> >>)
    ELSE [status |-> 405, by |-> "health_check", body |-> <<>>, schema_url |-> <<>>]

health_check(request) == JsonResponse(<< <<"status", "healthy">> >>)

\* what a collaborator outside this file may answer
CollaboratorStatuses == {200, 404}

NoRequest == [path |-> <<>>, method |-> "", body |-> ""]

VARIABLES urlpatterns, pc, request, match, response
vars == <<urlpatterns, pc, request, match, response>>

Init ==
    /\ urlpatterns = URLConf
    /\ pc = [w \in Workers |-> "idle"]
    /\ request = [w \in Workers |-> NoRequest]
    /\ match = [w \in Workers |-> Resolver404]
    /\ response = [w \in Workers |-> NoResponse]

\* a worker takes a request
Receive(w, p, m, b) ==
    /\ pc[w] = "idle"
    /\ pc' = [pc EXCEPT ![w] = "received"]
    /\ request' = [request EXCEPT ![w] = [path |-> p, method |-> m, body |-> b]]
    /\ UNCHANGED <<urlpatterns, match, response>>

\* a dispatch that uses a rule up: the matched rule leaves the list
DispatchConsuming(w) ==
    /\ pc[w] = "received"
    /\ LET m == resolve(urlpatterns, request[w].path) IN
         /\ match' = [match EXCEPT ![w] = m]
         /\ urlpatterns' = SelectSeq(urlpatterns, LAMBDA r : r # m)
    /\ pc' = [pc EXCEPT ![w] = "dispatched"]
    /\ UNCHANGED <<request, response>>

\* the path of the request is resolved against urlpatterns
Dispatch(w) ==
    /\ pc[w] = "received"
    /\ match' = [match EXCEPT ![w] = resolve(urlpatterns, request[w].path)]
    /\ pc' = [pc EXCEPT ![w] = "dispatched"]
    /\ UNCHANGED <<urlpatterns, request, response>>

\* the response of the view or collaborator the request was dispatched to
ViewResponses(w) ==
    LET v == match[w].view IN
    IF v.kind = "none" THEN
        {[status |-> 404, by |-> "Resolver404", body |-> <<>>, schema_url |-> <<>>]}
    ELSE IF v.target = "health_check" THEN {health_check(request[w])}
    ELSE IF v.target = "SpectacularSwaggerView" THEN
        {[status |-> 200, by |-> v.target, body |-> <<>>,
          schema_url |-> reverse(urlpatterns, v.url_name)]}
    ELSE {[status |-> s, by |-> v.target, body |-> <<>>, schema_url |-> <<>>] :
             s \in CollaboratorStatuses}

CallView(w) ==
    /\ pc[w] = "dispatched"
    /\ \E r \in ViewResponses(w) : response' = [response EXCEPT ![w] = r]
    /\ pc' = [pc EXCEPT ![w] = "responded"]
    /\ UNCHANGED <<urlpatterns, request, match>>

\* the response is sent and the worker is free again
Finish(w) ==
    /\ pc[w] = "responded"
    /\ pc' = [pc EXCEPT ![w] = "idle"]
    /\ request' = [request EXCEPT ![w] = NoRequest]
    /\ match' = [match EXCEPT ![w] = Resolver404]
    /\ response' = [response EXCEPT ![w] = NoResponse]
    /\ UNCHANGED urlpatterns

\* one request at a time, every path of up to MaxSegs segments
Next ==
    \/ /\ pc[1] = "idle"
       /\ \E p \in Paths, m \in Methods, b \in Bodies : Receive(1, p, m, b)
    \/ Dispatch(1)
    \/ CallView(1)
    \/ Finish(1)

Spec == Init /\ [][Next]_vars

\* NumWorkers requests in flight at once, over a smaller set of paths
NextConc ==
    \/ \E w \in Workers :
          /\ pc[w] = "idle"
          /\ \E p \in ConcPaths : Receive(w, p, "GET", "")
    \/ \E w \in Workers : Dispatch(w)
    \/ \E w \in Workers : CallView(w)
    \/ \E w \in Workers : Finish(w)

SpecConc == Init /\ [][NextConc]_vars

\* ================================================================ properties
Dispatched(w) == pc[w] \in {"dispatched", "responded"}
Handler(w) == match[w].view.target
Health == <<"health", "">>
ApiSchema == <<"api", "schema", "">>
ApiDocs == <<"api", "docs", "">>
HealthyResponse ==
    [status |-> 200, by |-> "health_check", body |-> << <<"status", "healthy">> >>,
     schema_url |-> <<>>]

\* the rule list as the specification states it: routes in order, the
\* handler of each, and which of them are leaves
StatedRoutes ==
    << <<"admin", "">>, Health, <<"api", "users", "">>,
       <<"api", "procurements", "">>, <<"api", "chat", "">>,
       <<"api", "payments", "">>, ApiSchema, ApiDocs >>
StatedHandlers ==
    << "admin.site.urls", "health_check", "users.urls", "procurements.urls",
       "chat.urls", "payments.urls", "SpectacularAPIView", "SpectacularSwaggerView" >>
StatedLeaves == {2, 7, 8}
Domains == {"users", "procurements", "chat", "payments"}
RouterOf ==
    [users |-> "users.urls", procurements |-> "procurements.urls",
     chat |-> "chat.urls", payments |-> "payments.urls"]
Min(S) == CHOOSE x \in S : \A y \in S : x <= y

\* C1: every request to 'health/', whatever its method or body, is answered
\* by health_check with HTTP 200 and the body {"status": "healthy"}.
C1_HealthAlwaysHealthy ==
    \A w \in Workers :
        (pc[w] = "responded" /\ request[w].path = Health)
            => response[w] = HealthyResponse

C1_Witness ==
    /\ pc[1] = "responded"
    /\ request[1] = [path |-> Health, method |-> "POST", body |-> "payload"]
    /\ response[1].status = 200

\* C2: a request whose path begins with 'api/<d>/', d one of the four
\* domains, is dispatched to the router of d, and the response comes from
\* that router and from nothing else.
C2_DomainDispatch ==
    \A w \in Workers : \A d \in Domains :
        LET p == request[w].path IN
        (Dispatched(w) /\ Len(p) >= 3 /\ p[1] = "api" /\ p[2] = d)
            => /\ Handler(w) = RouterOf[d]
               /\ match[w].view.kind = "include"
               /\ pc[w] = "responded" => response[w].by = RouterOf[d]

C2_Witness ==
    /\ pc[1] = "responded"
    /\ request[1].path = <<"api", "payments", "nope">>
    /\ response[1].by = "payments.urls"

\* C3 as stated: the first rule, in the stated order, whose route is a
\* prefix of the path determines the handler; no such rule, not found.
C3_FirstPrefixDispatch ==
    \A w \in Workers :
        Dispatched(w) =>
            LET p == request[w].path
                M == {i \in 1..Len(StatedRoutes) : StartsWith(p, StatedRoutes[i])}
            IN  Handler(w) = IF M = {} THEN "Resolver404" ELSE StatedHandlers[Min(M)]

\* C3 amended: the first rule, in the stated order, that matches the path
\* determines the handler, where a leaf rule matches the path equal to its
\* route and a mounted rule every path its route is a prefix of; a path no
\* rule matches is not found.
C3_FirstMatchDispatch ==
    \A w \in Workers :
        Dispatched(w) =>
            LET p == request[w].path
                M == {i \in 1..Len(StatedRoutes) :
                        IF i \in StatedLeaves THEN p = StatedRoutes[i]
                        ELSE StartsWith(p, StatedRoutes[i])}
            IN  /\ Handler(w) = IF M = {} THEN "Resolver404" ELSE StatedHandlers[Min(M)]
                /\ (pc[w] = "responded" /\ M = {}) => response[w].status = 404

C3_Witness ==
    /\ pc[1] = "dispatched"
    /\ request[1].path = <<"admin", "health", "">>
    /\ Handler(1) = "admin.site.urls"

\* C4: a path outside the registered ones (its first segment is none of
\* admin, health, api, or it is under 'api/' with a second segment that is
\* no mounted domain, schema or docs) matches no rule and is not found.
Unregistered(p) ==
    \/ p[1] \notin {"admin", "health", "api"}
    \/ /\ p[1] = "api"
       /\ \/ Len(p) < 2
          \/ p[2] \notin (Domains \cup {"schema", "docs"})

C4_UnregisteredNotFound ==
    \A w \in Workers :
        (Dispatched(w) /\ Unregistered(request[w].path))
            => /\ match[w] = Resolver404
               /\ \A i \in 1..Len(urlpatterns) :
                      ~RouteMatches(urlpatterns[i], request[w].path)
               /\ pc[w] = "responded" =>
                      (response[w].status = 404 /\ response[w].by = "Resolver404")

C4_Witness ==
    /\ pc[1] = "responded"
    /\ request[1].path = <<"api", "nope", "">>
    /\ response[1].status = 404

\* C5: the name the viewer at 'api/docs/' uses, 'schema', is carried by
\* exactly one route, 'api/schema/', whose view is the schema view; the
\* viewer's schema address is the path of that route.
C5_ViewerBoundToSchema ==
    /\ \A i \in 1..Len(urlpatterns) :
           urlpatterns[i].view.target = "SpectacularSwaggerView"
               => /\ urlpatterns[i].route = ApiDocs
                  /\ urlpatterns[i].view.url_name = "schema"
    /\ Cardinality({i \in 1..Len(urlpatterns) : urlpatterns[i].name = "schema"}) = 1
    /\ \A i \in 1..Len(urlpatterns) :
           urlpatterns[i].name = "schema"
               => /\ urlpatterns[i].route = ApiSchema
                  /\ urlpatterns[i].view.target = "SpectacularAPIView"
    /\ \A w \in Workers :
           (pc[w] = "responded" /\ request[w].path = ApiDocs)
               => /\ response[w].by = "SpectacularSwaggerView"
                  /\ response[w].schema_url = ApiSchema
                  /\ resolve(urlpatterns, response[w].schema_url).view.target
                         = "SpectacularAPIView"

C5_Witness ==
    /\ pc[1] = "responded"
    /\ request[1].path = ApiDocs
    /\ response[1].schema_url = ApiSchema

\* C6: a request whose path begins with 'admin/' is dispatched to the admin
\* site and answered by nothing else.
C6_AdminDispatch ==
    \A w \in Workers :
        LET p == request[w].path IN
        (Dispatched(w) /\ Len(p) >= 2 /\ p[1] = "admin")
            => /\ Handler(w) = "admin.site.urls"
               /\ pc[w] = "responded" => response[w].by = "admin.site.urls"

C6_Witness ==
    /\ pc[1] = "responded"
    /\ request[1].path = <<"admin", "users", "">>
    /\ response[1].by = "admin.site.urls"

\* C7: the rule list never changes and a step touches the slots of one
\* worker only, so requests for one path get one handler, the one the list
\* of startup gives, whatever else is or was in flight.
OneWorkerStep ==
    \E w \in Workers : \A v \in Workers \ {w} :
        /\ pc'[v] = pc[v]
        /\ request'[v] = request[v]
        /\ match'[v] = match[v]
        /\ response'[v] = response[v]

SamePathSameHandler ==
    \A v, w \in Workers :
        (Dispatched(v) /\ Dispatched(w) /\ request[v].path = request[w].path)
            => match[v] = match[w]

C7_TableImmutable ==
    /\ []SamePathSameHandler
    /\ [](urlpatterns = URLConf)
    /\ [][urlpatterns' = urlpatterns /\ OneWorkerStep]_vars

C7_Witness ==
    /\ pc[1] = "responded"
    /\ pc[2] = "dispatched"
    /\ request[1].path = Health
    /\ request[2].path = Health
    /\ Handler(2) = "health_check"

\* C8: no path matches two rules, so the handler of a path does not depend
\* on the order of the list.  Under any order the handler is that of the
\* matching rule that comes first, and each rule comes first in the list
\* that has it moved to the front; the lists with two rules exchanged and
\* the reversed list are covered as well.
MoveToFront(s, k) ==
    <<s[k]>> \o [i \in 1..(Len(s) - 1) |-> IF i < k THEN s[i] ELSE s[i + 1]]
Swapped(s, j, k) ==
    [i \in 1..Len(s) |-> IF i = j THEN s[k] ELSE IF i = k THEN s[j] ELSE s[i]]
Reversed(s) == [i \in 1..Len(s) |-> s[Len(s) + 1 - i]]

C8_RulesDisjoint ==
    \A w \in Workers :
        pc[w] = "dispatched" =>
            LET p == request[w].path
                n == Len(urlpatterns)
            IN
            /\ Cardinality({i \in 1..n : RouteMatches(urlpatterns[i], p)}) <= 1
            /\ \A k \in 1..n : resolve(MoveToFront(urlpatterns, k), p) = match[w]
            /\ \A j \in 1..n : \A k \in (j + 1)..n :
                   resolve(Swapped(urlpatterns, j, k), p) = match[w]
            /\ resolve(Reversed(urlpatterns), p) = match[w]

C8_Witness ==
    /\ pc[1] = "dispatched"
    /\ request[1].path = <<"api", "chat", "admin">>
    /\ Handler(1) = "chat.urls"
    /\ resolve(Reversed(urlpatterns), request[1].path) = urlpatterns[5]

\* C9: the leaf routes 'health/', 'api/schema/' and 'api/docs/' match the
\* whole path only: a request reaches health_check or a documentation view
\* only with exactly that path, and a longer path or one without the final
\* '/' is not found; the five mounted routes take every path under them.
Leaves ==
    [health_check |-> Health, SpectacularAPIView |-> ApiSchema,
     SpectacularSwaggerView |-> ApiDocs]

C9_LeavesExact ==
    \A w \in Workers :
        Dispatched(w) =>
            LET p == request[w].path IN
            /\ Handler(w) \in DOMAIN Leaves => p = Leaves[Handler(w)]
            /\ \A h \in DOMAIN Leaves :
                   LET r == Leaves[h] IN
                   \/ p = r
                   \/ ~(StartsWith(p, r) \/ p = SubSeq(r, 1, Len(r) - 1))
                   \/ Handler(w) = "Resolver404"
            /\ \A i \in (1..Len(StatedRoutes)) \ StatedLeaves :
                   StartsWith(p, StatedRoutes[i]) => Handler(w) = StatedHandlers[i]

C9_Witness ==
    /\ pc[1] = "responded"
    /\ request[1].path = <<"health", "health">>
    /\ response[1].status = 404

====
